---- MODULE Spec2Model ----
(***************************************************************************)
(* Model of the command execution core of danbrakeley/bsh: the Command     *)
(* builder (Bsh.Cmd and the modifiers), the two execution strategies       *)
(* (Command.run, Command.bash), the exit status extractor, the result      *)
(* projections (Run, RunStr, RunErr, RunExitStatus and the Bash variants)  *)
(* and the error handler of the owning Bsh (SetErrorHandler, Panic).       *)
(*                                                                         *)
(* Every exported call is one action.  The outcome of the external calls   *)
(* (commandline.Parse, exec.Cmd.Run) is an input of the action.  The       *)
(* variable last holds the record of the runner call that has just ended:  *)
(* what it was given, the ordered events it produced, and how it ended.    *)
(* The host program drops that record when it makes its next call that is  *)
(* not a runner.                                                           *)
(***************************************************************************)
EXTENDS Integers, Sequences, FiniteSets, TLC

\* ------------------------------------------------------------------ bounds
\* Number of Command values the host program creates.
MaxCmds == 1

\* Most entries that Env calls add to one Command.
MaxEnv == 2

\* Most filters pushed and not popped.
MaxFilters == 2

\* Longest path, in names, that CopyContents is let to create.
MaxDepth == 3

\* Most InDir calls inside one another within the function given to InDir.
MaxNest == 1

\* ------------------------------------------------------------ error values
\* A Go error value.  kind "nil" is the nil error.  kind "ExitError" is a
\* *exec.ExitError; exited tells whether the process state says the process
\* exited by itself (then status is its exit code) or was ended by a signal.
NilErr == [kind |-> "nil", exited |-> FALSE, status |-> 0]

ParseErr == [kind |-> "parse", exited |-> FALSE, status |-> 0]

StartErr == [kind |-> "start", exited |-> FALSE, status |-> 0]

SignalErr == [kind |-> "ExitError", exited |-> FALSE, status |-> 0]

ExitErr(n) == [kind |-> "ExitError", exited |-> TRUE, status |-> n]

\* Exit codes of a process that ran to completion unsuccessfully.
ExitCodes == {3}

\* What exec.Cmd.Run can return.
RunOutcomes == {NilErr, StartErr, SignalErr} \cup {ExitErr(n) : n \in ExitCodes}

\* ------------------------------------------------------- external helpers
IsExitError(err) == err.kind = "ExitError"

ExitCode(ee) == IF ee.exited THEN ee.status ELSE -1

\* commandline.Parse: splits on blanks, a double quote opens and closes a
\* quoted part, a backslash takes the next character literally.  An open
\* quote or a backslash at the end is an error.
RECURSIVE Scan(_, _, _, _, _, _)
Scan(s, i, args, cur, has, q) ==
    IF i > Len(s)
    THEN IF q
         THEN [args |-> <<>>, err |-> ParseErr]
         ELSE [args |-> IF has THEN Append(args, cur) ELSE args, err |-> NilErr]
    ELSE IF q
         THEN IF s[i] = "\"" THEN Scan(s, i + 1, args, cur, TRUE, FALSE)
              ELSE Scan(s, i + 1, args, Append(cur, s[i]), TRUE, TRUE)
         ELSE IF s[i] = " "
              THEN Scan(s, i + 1, IF has THEN Append(args, cur) ELSE args, <<>>, FALSE, FALSE)
              ELSE IF s[i] = "\"" THEN Scan(s, i + 1, args, cur, TRUE, TRUE)
              ELSE IF s[i] = "\\"
                   THEN IF i = Len(s) THEN [args |-> <<>>, err |-> ParseErr]
                        ELSE Scan(s, i + 2, args, Append(cur, s[i + 1]), TRUE, FALSE)
                   ELSE Scan(s, i + 1, args, Append(cur, s[i]), TRUE, FALSE)

Parse(raw) == Scan(raw, 1, <<>>, <<>>, FALSE, FALSE)

\* The raw command lines the host program passes to Cmd.
Raws == { <<"x", " ", "y">>, <<"x", " ", "\"", "y">>, <<>> }

\* The variables of the process environment the model follows, and the
\* values they take; "" is what os.Getenv gives for one that is not set.
EnvNames == {"MAGEFILE_VERBOSE", "BSH_V", "HOME"}

EnvValues == {"", "true", "false", "/h"}

Environs == [EnvNames -> EnvValues]

\* The characters that end a variable name in os.Expand.
NameEnds == {" ", "\"", "\\", "$"}

\* The length of the run of name characters s starts with.
RECURSIVE NameRun(_)
NameRun(s) ==
    IF s = <<>> \/ Head(s) \in NameEnds THEN 0 ELSE 1 + NameRun(Tail(s))

\* os.ExpandEnv over a text given as a sequence of pieces, a piece being one
\* character or one variable name: "$" and the name after it give way to the
\* value of the variable ("" when it is not set, and for "$$"); a "$" that no
\* name follows stays.
RECURSIVE Expand(_, _)
Expand(s, e) ==
    IF s = <<>> THEN <<>>
    ELSE IF Head(s) # "$" \/ Len(s) = 1 THEN <<Head(s)>> \o Expand(Tail(s), e)
    ELSE IF s[2] = "$" THEN Expand(SubSeq(s, 3, Len(s)), e)
    ELSE LET n == NameRun(Tail(s))
             v == IF n = 1 /\ s[2] \in EnvNames THEN e[s[2]] ELSE ""
         IN  IF n = 0 THEN <<"$">> \o Expand(Tail(s), e)
             ELSE (IF v = "" THEN <<>> ELSE <<v>>) \o Expand(SubSeq(s, n + 2, Len(s)), e)

\* The raw commands of the Commands whose fields are configured.
BuilderRaws == { <<"x", " ", "$", "HOME">>, <<"x", " ", "$", "BSH_V", "$">> }

AllRaws == Raws \cup BuilderRaws \cup {Expand(r, e) : r \in BuilderRaws, e \in Environs}

\* commandline.Parse on each of them.
Tokens == [raw \in AllRaws |-> Parse(raw)]

\* ------------------------------------------------------------------ state
NoHandler == "nil"

Handlers == {"h1", "h2"}

NoCell == "nil"

Cells == {"n"}

\* Values an int cell of the host program holds before any runner wrote it.
CellInits == {7}

VARIABLES
    fnErr,     \* Bsh.fnErr: the installed error handler, or NoHandler
    cmds,      \* the Command values created so far, in creation order
    cells,     \* the host program's int cells that ExitStatus can bind
    last,      \* record of the runner call that has just ended, or NoCall
    requested, \* the argument of the most recent SetErrorHandler call
    environ,   \* the environment of the process: os.Getenv of each name
    verboseEnvVar, \* Bsh.verboseEnvVar, "" until it is first needed
    wanted,    \* the argument of the most recent SetVerbose call, as text, or
               \* "none" once the host program has set the variable itself
    echoFilters,   \* Bsh.echoFilters
    DisableColor,  \* Bsh.DisableColor
    said,      \* record of the console call that has just ended, or NoSaid
    popped,    \* the filter the most recent PopEchoFilter removed, or NoFilter
    fs,        \* the file tree: each existing path to "dir" or to file contents
    cwd,       \* the working directory of the process
    did        \* record of the file call that has just ended, or NoDid

\* The console of the Bsh.
console == <<echoFilters, DisableColor, said, popped>>

\* The verbosity switch of the Bsh.
verbosity == <<environ, verboseEnvVar, wanted>>

vars == <<fnErr, cmds, cells, last, requested, environ, verboseEnvVar, wanted,
          echoFilters, DisableColor, said, popped, fs, cwd, did>>

\* The files of the host.
files == <<fs, cwd, did>>

\* What the calls on Commands and on the handler leave alone.
aux == <<verbosity, console, files>>

\* What the calls on the console and the verbosity switch leave alone.
shell == <<fnErr, cmds, cells, last, requested>>

\* The root folder, which is the working directory at the start.
Root == <<>>

NoDid ==
    [op |-> "none", src |-> Root, dst |-> Root, before |-> <<>>, policy |-> NoHandler,
     err |-> NilErr, list |-> <<>>, events |-> <<>>, fault |-> "none",
     returned |-> FALSE, ret |-> FALSE, cwds |-> <<>>]

NoFilter == <<"nil">>

NoSaid == [op |-> "none", str |-> <<>>, out |-> <<>>, fault |-> "none"]

\* The io.Writer values a Command can hold: the stdout and stderr of the
\* owning Bsh, a writer of the host program, and the strings.Builder that a
\* call of RunStr/BashStr declares. A Command names "builder" the builder of
\* the latest capturing call on it, and a capturing call names "spent" the
\* builder that an earlier capturing call left in the Command.
Builders == {"builder", "spent"}

HostWriters == {"w1"}

Writers == {"stdout", "stderr"} \cup HostWriters \cup Builders

\* The io.Reader values a Command can hold.
Readers == {"stdin", "r1"}

\* A Command as Bsh.Cmd builds it: in, out and err start as the streams of
\* the owning Bsh; b is the owning Bsh, of which the model has one.
NewCommand(command) ==
    [raw |-> command, dir |-> "", env |-> <<>>,
     in |-> "stdin", out |-> "stdout", err |-> "stderr",
     exitStatus |-> NoCell, b |-> "sh"]

NoWrites == [w \in Writers |-> ""]

\* The fields of an exec.Cmd that run and bash assign; EnvSet tells whether
\* Env was assigned at all, a nil Env making the process inherit the
\* environment of the host program.  NoCmd stands for no exec.Cmd built.
NoCmd == [EnvSet |-> FALSE, Env |-> <<>>, Dir |-> "", Stdin |-> "", Stdout |-> "", Stderr |-> ""]

NoRet == [n |-> 0, err |-> NilErr, str |-> ""]

NoCall ==
    [op |-> "none", c |-> 0, given |-> NewCommand(<<>>), wrote |-> NoWrites,
     argv |-> <<>>, cmd |-> NoCmd, runErr |-> NilErr, text |-> "",
     events |-> <<>>, fault |-> "none", faultErr |-> NilErr,
     returned |-> FALSE, ret |-> NoRet]

Init ==
    /\ fnErr = NoHandler
    /\ cmds = <<>>
    /\ cells \in [Cells -> CellInits]
    /\ last = NoCall
    /\ requested = NoHandler
    /\ environ = [n \in EnvNames |-> IF n = "HOME" THEN "/h" ELSE ""]
    /\ verboseEnvVar = ""
    /\ wanted = "none"
    /\ echoFilters = <<>>
    /\ DisableColor = FALSE
    /\ said = NoSaid
    /\ popped = NoFilter
    /\ fs = (Root :> "dir")
    /\ cwd = Root
    /\ did = NoDid

\* One step of a runner, in the order the runner takes them.
\* arg is the error a step was given, err and n what it produced, who the
\* handler, stream or cell it acted on.
Event(ev, arg, err, n, who) == [ev |-> ev, arg |-> arg, err |-> err, n |-> n, who |-> who]

\* Combined output the process wrote to its stdout and stderr before
\* exec.Cmd.Run returned e.  A process that could not be started wrote nothing.
TextOf(e) ==
    IF e = NilErr THEN "hi"
    ELSE IF IsExitError(e) /\ e.exited THEN "oops"
    ELSE IF IsExitError(e) THEN "h"
    ELSE ""

\* The part of that text the process wrote to its stdout, and to its stderr.
OutOf(e) ==
    IF e = NilErr THEN "h"
    ELSE IF IsExitError(e) /\ e.exited THEN "o"
    ELSE IF IsExitError(e) THEN "h"
    ELSE ""

ErrOf(e) ==
    IF e = NilErr THEN "i"
    ELSE IF IsExitError(e) /\ e.exited THEN "ops"
    ELSE ""

\* What the writer w holds of it when the process ran with stdout bound to
\* out and stderr bound to err.
Received(w, out, err, e) ==
    IF out = w /\ err = w THEN TextOf(e)
    ELSE IF out = w THEN OutOf(e)
    ELSE IF err = w THEN ErrOf(e)
    ELSE ""

\* What exec.Cmd.Run hands back: its error and the text the process wrote.
Results == {[err |-> e, text |-> TextOf(e)] : e \in RunOutcomes}

\* ------------------------------------------------------ exit status extractor
\* Variant: a non-zero exit is reported as an error too.
extractExitStatus_NonZeroIsError(err) ==
    IF err = NilErr THEN [n |-> 0, err |-> NilErr]
    ELSE IF ~IsExitError(err) THEN [n |-> -1, err |-> err]
    ELSE [n |-> ExitCode(err), err |-> err]

\* Variant: an error that is no exit error is swallowed.
extractExitStatus_DropsError(err) ==
    IF err = NilErr THEN [n |-> 0, err |-> NilErr]
    ELSE IF ~IsExitError(err) THEN [n |-> -1, err |-> NilErr]
    ELSE [n |-> ExitCode(err), err |-> NilErr]

\* Variant: the nil check is missing, so nil falls through the errors.As test.
extractExitStatus_NoNilCheck(err) ==
    IF ~IsExitError(err) THEN [n |-> -1, err |-> err]
    ELSE [n |-> ExitCode(err), err |-> NilErr]

extractExitStatus(err) ==
    IF err = NilErr THEN [n |-> 0, err |-> NilErr]
    ELSE IF ~IsExitError(err) THEN [n |-> -1, err |-> err]
    ELSE [n |-> ExitCode(err), err |-> NilErr]

\* ------------------------------------------------------------ error handler
\* Variant: the handler is called and the panic is raised all the same.
Panic_HandlerThenPanic(err) ==
    IF fnErr # NoHandler
    THEN [events |-> <<Event("Panic", err, NilErr, 0, ""), Event("handler", err, NilErr, 0, fnErr)>>,
          fault |-> "panic", faultErr |-> err]
    ELSE [events |-> <<Event("Panic", err, NilErr, 0, "")>>,
          fault |-> "panic", faultErr |-> err]

\* Bsh.Panic: the events it adds and whether it raises a Go panic.
Panic(err) ==
    IF fnErr # NoHandler
    THEN [events |-> <<Event("Panic", err, NilErr, 0, ""), Event("handler", err, NilErr, 0, fnErr)>>,
          fault |-> "none", faultErr |-> NilErr]
    ELSE [events |-> <<Event("Panic", err, NilErr, 0, "")>>,
          fault |-> "panic", faultErr |-> err]

\* Variant: a handler that is already installed is kept.
SetErrorHandler_KeepsInstalled(h) ==
    /\ fnErr' = IF fnErr = NoHandler THEN h ELSE fnErr
    /\ requested' = h
    /\ last' = NoCall
    /\ UNCHANGED <<cmds, cells>>
    /\ UNCHANGED aux

SetErrorHandler(h) ==
    /\ fnErr' = h
    /\ requested' = h
    /\ last' = NoCall
    /\ UNCHANGED <<cmds, cells>>
    /\ UNCHANGED aux

\* ----------------------------------------------------------------- builder
Cmd(command) ==
    /\ Len(cmds) < MaxCmds
    /\ cmds' = Append(cmds, NewCommand(command))
    /\ last' = NoCall
    /\ UNCHANGED <<fnErr, cells, requested>>
    /\ UNCHANGED aux

ExitStatus(i, n) ==
    /\ cmds' = [cmds EXCEPT ![i].exitStatus = n]
    /\ last' = NoCall
    /\ UNCHANGED <<fnErr, cells, requested>>
    /\ UNCHANGED aux

Out(i, w) ==
    /\ cmds' = [cmds EXCEPT ![i].out = w]
    /\ last' = NoCall
    /\ UNCHANGED <<fnErr, cells, requested>>
    /\ UNCHANGED aux

Err(i, w) ==
    /\ cmds' = [cmds EXCEPT ![i].err = w]
    /\ last' = NoCall
    /\ UNCHANGED <<fnErr, cells, requested>>
    /\ UNCHANGED aux

\* Variant: OutErr binds the standard output only.
OutErr_OutOnly(i, w) ==
    /\ cmds' = [cmds EXCEPT ![i].out = w]
    /\ last' = NoCall
    /\ UNCHANGED <<fnErr, cells, requested>>
    /\ UNCHANGED aux

OutErr(i, w) ==
    /\ cmds' = [cmds EXCEPT ![i].out = w, ![i].err = w]
    /\ last' = NoCall
    /\ UNCHANGED <<fnErr, cells, requested>>
    /\ UNCHANGED aux

In(i, r) ==
    /\ cmds' = [cmds EXCEPT ![i].in = r]
    /\ last' = NoCall
    /\ UNCHANGED <<fnErr, cells, requested>>
    /\ UNCHANGED aux

\* c.raw = os.ExpandEnv(c.raw)
ExpandEnv(i) ==
    /\ cmds' = [cmds EXCEPT ![i].raw = Expand(@, environ)]
    /\ last' = NoCall
    /\ UNCHANGED <<fnErr, cells, requested>>
    /\ UNCHANGED aux

\* c.env = append(c.env, env...), one entry at a time
Env(i, e) ==
    /\ Len(cmds[i].env) < MaxEnv
    /\ cmds' = [cmds EXCEPT ![i].env = Append(@, e)]
    /\ last' = NoCall
    /\ UNCHANGED <<fnErr, cells, requested>>
    /\ UNCHANGED aux

Dir(i, d) ==
    /\ cmds' = [cmds EXCEPT ![i].dir = d]
    /\ last' = NoCall
    /\ UNCHANGED <<fnErr, cells, requested>>
    /\ UNCHANGED aux

\* ------------------------------------------------------ execution strategies
\* Variant: the cell is written only when cmd.Run returned no error.
sinkWrite_OnlyOnSuccess(c, err, cs) ==
    IF c.exitStatus # NoCell /\ err = NilErr
    THEN [events |-> <<Event("extractExitStatus", err, NilErr, 0, ""),
                       Event("sink", NilErr, NilErr, 0, c.exitStatus)>>,
          cells |-> [cs EXCEPT ![c.exitStatus] = 0]]
    ELSE [events |-> <<>>, cells |-> cs]

\* Variant: the cell takes what extractExitStatus gives even when it gives
\* an error with it.
sinkWrite_IgnoresError(c, err, cs) ==
    IF c.exitStatus # NoCell
    THEN LET r == extractExitStatus(err)
         IN  [events |-> <<Event("extractExitStatus", err, r.err, r.n, ""),
                           Event("sink", NilErr, NilErr, r.n, c.exitStatus)>>,
              cells |-> [cs EXCEPT ![c.exitStatus] = r.n]]
    ELSE [events |-> <<>>, cells |-> cs]

\* The tail of run and bash after cmd.Run returned err: the write of the
\* bound exit status cell.
sinkWrite(c, err, cs) ==
    IF c.exitStatus # NoCell
    THEN LET r == extractExitStatus(err)
         IN  [events |-> <<Event("extractExitStatus", err, r.err, r.n, "")>>
                          \o (IF r.err = NilErr
                              THEN <<Event("sink", NilErr, NilErr, r.n, c.exitStatus)>>
                              ELSE <<>>),
              cells |-> IF r.err = NilErr THEN [cs EXCEPT ![c.exitStatus] = r.n] ELSE cs]
    ELSE [events |-> <<>>, cells |-> cs]

\* The order in which os.Environ lists the variables.
EnvOrder == <<"BSH_V", "HOME", "MAGEFILE_VERBOSE">>

\* os.Environ(): a "NAME=value" entry for each variable that is set.
RECURSIVE Listed(_, _)
Listed(names, e) ==
    IF names = <<>> THEN <<>>
    ELSE (IF e[Head(names)] = "" THEN <<>> ELSE <<Head(names) \o "=" \o e[Head(names)]>>)
         \o Listed(Tail(names), e)

osEnviron == Listed(EnvOrder, environ)

\* The exec.Cmd of run and bash after their assignments to it: Env only when
\* the Command has entries, then the entries of os.Environ() followed by the
\* Command's; Dir and the three streams from the Command.
execCommand(c) ==
    [EnvSet |-> Len(c.env) > 0,
     Env |-> IF Len(c.env) > 0 THEN osEnviron \o c.env ELSE <<>>,
     Dir |-> c.dir, Stdin |-> c.in, Stdout |-> c.out, Stderr |-> c.err]

\* Variant: a Command that a capturing runner has bound to its builder is
\* inert, no process is started for it.
spawn_InertOnceRun(c, argv, res, cs) ==
    IF c.out \in Builders
    THEN [err |-> NilErr, argv |-> <<>>, cmd |-> NoCmd, text |-> "", wrote |-> NoWrites,
          events |-> <<>>, cells |-> cs, fault |-> "none"]
    ELSE LET w == sinkWrite(c, res.err, cs)
         IN  [err |-> res.err, argv |-> argv, cmd |-> execCommand(c), text |-> res.text,
              wrote |-> [x \in Writers |-> Received(x, c.out, c.err, res.err)],
              events |-> <<Event("exec", NilErr, NilErr, 0, c.out),
                           Event("wait", NilErr, res.err, 0, "")>> \o w.events,
              cells |-> w.cells, fault |-> "none"]

\* exec.Command(argv...) with the Command's streams, then cmd.Run.
spawn(c, argv, res, cs) ==
    LET w == sinkWrite(c, res.err, cs)
    IN  [err |-> res.err, argv |-> argv, cmd |-> execCommand(c), text |-> res.text,
         wrote |-> [x \in Writers |-> Received(x, c.out, c.err, res.err)],
         events |-> <<Event("exec", NilErr, NilErr, 0, c.out), Event("wait", NilErr, res.err, 0, "")>> \o w.events,
         cells |-> w.cells, fault |-> "none"]

\* Variant: the error of commandline.Parse is dropped and the process is
\* started from whatever tokens came back.
run_IgnoresParseError(c, res, cs) ==
    LET p == Tokens[c.raw]
        s == spawn(c, IF p.err # NilErr THEN <<c.raw>> ELSE p.args, res, cs)
    IN  IF p.err = NilErr /\ Len(p.args) = 0
        THEN [err |-> NilErr, argv |-> <<>>, cmd |-> NoCmd, text |-> "", wrote |-> NoWrites,
              events |-> <<Event("Verbosef", NilErr, NilErr, 0, "")>>,
              cells |-> cs, fault |-> "runtime"]
        ELSE [s EXCEPT !.events = <<Event("Verbosef", NilErr, NilErr, 0, "")>> \o @]

\* Command.run, the direct strategy.  With no token, args[0] is an index out
\* of range: a Go runtime panic.
run(c, res, cs) ==
    LET p == Tokens[c.raw]
    IN  IF p.err # NilErr
        THEN [err |-> p.err, argv |-> <<>>, cmd |-> NoCmd, text |-> "", wrote |-> NoWrites, events |-> <<>>,
              cells |-> cs, fault |-> "none"]
        ELSE IF Len(p.args) = 0
        THEN [err |-> NilErr, argv |-> <<>>, cmd |-> NoCmd, text |-> "", wrote |-> NoWrites,
              events |-> <<Event("Verbosef", NilErr, NilErr, 0, "")>>,
              cells |-> cs, fault |-> "runtime"]
        ELSE LET s == spawn(c, p.args, res, cs)
             IN  [s EXCEPT !.events = <<Event("Verbosef", NilErr, NilErr, 0, "")>> \o @]

\* Variant: the shell strategy leaves cmd.Dir unassigned, so the process
\* starts in the directory of the host program.
bash_NoDir(c, res, cs) ==
    LET s == spawn(c, <<"bash", "-c", c.raw>>, res, cs)
    IN  [s EXCEPT !.events = <<Event("Verbosef", NilErr, NilErr, 0, "")>> \o @,
                  !.cmd.Dir = ""]

\* Command.bash, the shell strategy: raw goes to bash -c untokenized.
bash(c, res, cs) ==
    LET s == spawn(c, <<"bash", "-c", c.raw>>, res, cs)
    IN  [s EXCEPT !.events = <<Event("Verbosef", NilErr, NilErr, 0, "")>> \o @]

\* var b strings.Builder declares a builder no Command holds yet: a builder
\* the Command still holds is one of an earlier call.
Spent(c) ==
    [c EXCEPT !.out = IF @ = "builder" THEN "spent" ELSE @,
              !.err = IF @ = "builder" THEN "spent" ELSE @]

\* Variant: only the standard output is bound to the builder.
Rebound_OutOnly(c) == [Spent(c) EXCEPT !.out = "builder"]

\* RunStr and BashStr bind out and err to their strings.Builder first.
Rebound(c) == [Spent(c) EXCEPT !.out = "builder", !.err = "builder"]

\* -------------------------------------------------------- result projections
\* The record of a runner call: r is what the strategy did, e what the
\* escalation (if any) did, ret what the runner returns when it returns.
Call(op, i, r, e, ret) ==
    LET fault == IF r.fault # "none" THEN r.fault ELSE e.fault
    IN  [op |-> op, c |-> i, given |-> IF op \in {"RunStr", "BashStr"} THEN Spent(cmds[i]) ELSE cmds[i],
         wrote |-> r.wrote,
         argv |-> r.argv, cmd |-> r.cmd, runErr |-> r.err, text |-> r.text,
         events |-> r.events \o e.events,
         fault |-> fault,
         faultErr |-> IF r.fault # "none" THEN NilErr ELSE e.faultErr,
         returned |-> fault = "none",
         ret |-> IF fault = "none" THEN ret ELSE NoRet]

NoEscalation == [events |-> <<>>, fault |-> "none", faultErr |-> NilErr]

\* b.Warnf("unexpected error in ...") followed by b.Panic(err).
Escalate(err) ==
    LET p == Panic(err)
    IN  [p EXCEPT !.events = <<Event("Warnf", NilErr, NilErr, 0, "")>> \o @]

\* Run and Bash: if err := c.run(); err != nil { escalate }
EscalateOnly(op, i, r) ==
    Call(op, i, r,
         IF r.fault = "none" /\ r.err # NilErr THEN Escalate(r.err) ELSE NoEscalation,
         NoRet)

\* RunStr and BashStr: as above, then return b.String()
CapturedText(op, i, r) ==
    Call(op, i, r,
         IF r.fault = "none" /\ r.err # NilErr THEN Escalate(r.err) ELSE NoEscalation,
         [NoRet EXCEPT !.str = r.wrote["builder"]])

\* Variant: the error is escalated as Run does, then returned.
ErrorReturning_Escalates(op, i, r) ==
    Call(op, i, r,
         IF r.fault = "none" /\ r.err # NilErr THEN Escalate(r.err) ELSE NoEscalation,
         [NoRet EXCEPT !.err = r.err])

\* RunErr and BashErr: return c.run()
ErrorReturning(op, i, r) ==
    Call(op, i, r, NoEscalation, [NoRet EXCEPT !.err = r.err])

\* RunExitStatus and BashExitStatus
CapturedExitCode(op, i, r) ==
    LET x == extractExitStatus(r.err)
        rx == IF r.fault = "none"
              THEN [r EXCEPT !.events = @ \o <<Event("extractExitStatus", r.err, x.err, x.n, "")>>]
              ELSE r
    IN  Call(op, i, rx,
             IF r.fault = "none" /\ x.err # NilErr THEN Escalate(x.err) ELSE NoEscalation,
             [NoRet EXCEPT !.n = x.n])

Run(i) ==
    \E res \in Results :
        LET r == run(cmds[i], res, cells)
        IN  /\ last' = EscalateOnly("Run", i, r)
            /\ cells' = r.cells
            /\ UNCHANGED <<fnErr, cmds, requested>>
            /\ UNCHANGED aux

RunStr(i) ==
    \E res \in Results :
        LET r == run(Rebound(cmds[i]), res, cells)
        IN  /\ last' = CapturedText("RunStr", i, r)
            /\ cells' = r.cells
            /\ cmds' = [cmds EXCEPT ![i] = Rebound(@)]
            /\ UNCHANGED <<fnErr, requested>>
            /\ UNCHANGED aux

RunErr(i) ==
    \E res \in Results :
        LET r == run(cmds[i], res, cells)
        IN  /\ last' = ErrorReturning("RunErr", i, r)
            /\ cells' = r.cells
            /\ UNCHANGED <<fnErr, cmds, requested>>
            /\ UNCHANGED aux

RunExitStatus(i) ==
    \E res \in Results :
        LET r == run(cmds[i], res, cells)
        IN  /\ last' = CapturedExitCode("RunExitStatus", i, r)
            /\ cells' = r.cells
            /\ UNCHANGED <<fnErr, cmds, requested>>
            /\ UNCHANGED aux

Bash(i) ==
    \E res \in Results :
        LET r == bash(cmds[i], res, cells)
        IN  /\ last' = EscalateOnly("Bash", i, r)
            /\ cells' = r.cells
            /\ UNCHANGED <<fnErr, cmds, requested>>
            /\ UNCHANGED aux

BashStr(i) ==
    \E res \in Results :
        LET r == bash(Rebound(cmds[i]), res, cells)
        IN  /\ last' = CapturedText("BashStr", i, r)
            /\ cells' = r.cells
            /\ cmds' = [cmds EXCEPT ![i] = Rebound(@)]
            /\ UNCHANGED <<fnErr, requested>>
            /\ UNCHANGED aux

BashErr(i) ==
    \E res \in Results :
        LET r == bash(cmds[i], res, cells)
        IN  /\ last' = ErrorReturning("BashErr", i, r)
            /\ cells' = r.cells
            /\ UNCHANGED <<fnErr, cmds, requested>>
            /\ UNCHANGED aux

BashExitStatus(i) ==
    \E res \in Results :
        LET r == bash(cmds[i], res, cells)
        IN  /\ last' = CapturedExitCode("BashExitStatus", i, r)
            /\ cells' = r.cells
            /\ UNCHANGED <<fnErr, cmds, requested>>
            /\ UNCHANGED aux

\* ----------------------------------------------------------- specification
Next ==
    \/ \E command \in Raws : Cmd(command)
    \/ \E i \in 1..Len(cmds), n \in Cells \cup {NoCell} : ExitStatus(i, n)
    \/ \E h \in Handlers \cup {NoHandler} : SetErrorHandler(h)
    \/ \E i \in 1..Len(cmds) : Run(i)
    \/ \E i \in 1..Len(cmds) : RunStr(i)
    \/ \E i \in 1..Len(cmds) : RunErr(i)
    \/ \E i \in 1..Len(cmds) : RunExitStatus(i)
    \/ \E i \in 1..Len(cmds) : Bash(i)
    \/ \E i \in 1..Len(cmds) : BashStr(i)
    \/ \E i \in 1..Len(cmds) : BashErr(i)
    \/ \E i \in 1..Len(cmds) : BashExitStatus(i)

Spec == Init /\ [][Next]_vars

\* The runners over Commands whose streams the host program binds.
NextStreams ==
    \/ \E command \in Raws : Cmd(command)
    \/ \E i \in 1..Len(cmds), w \in HostWriters : Out(i, w)
    \/ \E i \in 1..Len(cmds), w \in HostWriters : Err(i, w)
    \/ \E i \in 1..Len(cmds), w \in HostWriters : OutErr(i, w)
    \/ \E h \in Handlers \cup {NoHandler} : SetErrorHandler(h)
    \/ \E i \in 1..Len(cmds) : Run(i)
    \/ \E i \in 1..Len(cmds) : RunStr(i)
    \/ \E i \in 1..Len(cmds) : Bash(i)
    \/ \E i \in 1..Len(cmds) : BashStr(i)

SpecStreams == Init /\ [][NextStreams]_vars

HostReaders == {"r1"}

EnvEntries == {"K=1"}

Dirs == {"d1"}

\* One Command just built, from sh.Cmd of a raw command with variables.
InitBuilder ==
    /\ fnErr = NoHandler
    /\ cmds \in {<<NewCommand(command)>> : command \in BuilderRaws}
    /\ cells \in [Cells -> CellInits]
    /\ last = NoCall
    /\ requested = NoHandler
    /\ environ = [n \in EnvNames |-> IF n = "HOME" THEN "/h" ELSE ""]
    /\ verboseEnvVar = ""
    /\ wanted = "none"
    /\ echoFilters = <<>>
    /\ DisableColor = FALSE
    /\ said = NoSaid
    /\ popped = NoFilter
    /\ fs = (Root :> "dir")
    /\ cwd = Root
    /\ did = NoDid

\* The configuration calls on that Command, and runners.
NextBuilder ==
    \/ \E i \in 1..Len(cmds), r \in HostReaders : In(i, r)
    \/ \E i \in 1..Len(cmds), w \in HostWriters : Out(i, w)
    \/ \E i \in 1..Len(cmds), w \in HostWriters : Err(i, w)
    \/ \E i \in 1..Len(cmds), w \in HostWriters : OutErr(i, w)
    \/ \E i \in 1..Len(cmds), n \in Cells : ExitStatus(i, n)
    \/ \E i \in 1..Len(cmds) : ExpandEnv(i)
    \/ \E i \in 1..Len(cmds), e \in EnvEntries : Env(i, e)
    \/ \E i \in 1..Len(cmds), d \in Dirs : Dir(i, d)
    \/ \E i \in 1..Len(cmds) : RunErr(i)
    \/ \E i \in 1..Len(cmds) : BashExitStatus(i)

SpecBuilder == InitBuilder /\ [][NextBuilder]_vars

\* The entries the host program adds with Env when the two strategies are
\* compared: one names a variable the environment already holds.
StrategyEnv == {"K=1", "HOME=/x"}

\* One Command just built, from sh.Cmd of a raw command that tokenizes, of
\* one that does not, or of the empty one.
InitStrategies ==
    /\ fnErr = NoHandler
    /\ cmds \in {<<NewCommand(command)>> : command \in Raws}
    /\ cells \in [Cells -> CellInits]
    /\ last = NoCall
    /\ requested = NoHandler
    /\ environ = [n \in EnvNames |-> IF n = "HOME" THEN "/h" ELSE ""]
    /\ verboseEnvVar = ""
    /\ wanted = "none"
    /\ echoFilters = <<>>
    /\ DisableColor = FALSE
    /\ said = NoSaid
    /\ popped = NoFilter
    /\ fs = (Root :> "dir")
    /\ cwd = Root
    /\ did = NoDid

\* Configuration of that Command, and for each strategy the runner that
\* returns its error and the runner that captures its output.
NextStrategies ==
    \/ \E i \in 1..Len(cmds), r \in HostReaders : In(i, r)
    \/ \E i \in 1..Len(cmds), w \in HostWriters : Out(i, w)
    \/ \E i \in 1..Len(cmds), n \in Cells : ExitStatus(i, n)
    \/ \E i \in 1..Len(cmds), e \in StrategyEnv : Env(i, e)
    \/ \E i \in 1..Len(cmds), d \in Dirs : Dir(i, d)
    \/ \E i \in 1..Len(cmds) : RunStr(i)
    \/ \E i \in 1..Len(cmds) : RunErr(i)
    \/ \E i \in 1..Len(cmds) : BashStr(i)
    \/ \E i \in 1..Len(cmds) : BashErr(i)

SpecStrategies == InitStrategies /\ [][NextStrategies]_vars

\* One Command, the binding of its cell, and the eight runners under each
\* error handler.
NextSink ==
    \/ \E i \in 1..Len(cmds), n \in Cells \cup {NoCell} : ExitStatus(i, n)
    \/ \E h \in Handlers \cup {NoHandler} : SetErrorHandler(h)
    \/ \E i \in 1..Len(cmds) : Run(i)
    \/ \E i \in 1..Len(cmds) : RunStr(i)
    \/ \E i \in 1..Len(cmds) : RunErr(i)
    \/ \E i \in 1..Len(cmds) : RunExitStatus(i)
    \/ \E i \in 1..Len(cmds) : Bash(i)
    \/ \E i \in 1..Len(cmds) : BashStr(i)
    \/ \E i \in 1..Len(cmds) : BashErr(i)
    \/ \E i \in 1..Len(cmds) : BashExitStatus(i)

SpecSink == InitStrategies /\ [][NextSink]_vars

\* ------------------------------------------------------- reading a call record
DirectOps == {"Run", "RunStr", "RunErr", "RunExitStatus"}

ShellOps == {"Bash", "BashStr", "BashErr", "BashExitStatus"}

EscalateOnlyOps == {"Run", "Bash"}

CapturedTextOps == {"RunStr", "BashStr"}

ErrorReturningOps == {"RunErr", "BashErr"}

CapturedExitCodeOps == {"RunExitStatus", "BashExitStatus"}

\* Positions in the last call's events of the steps named ev.
At(ev) == {k \in DOMAIN last.events : last.events[k].ev = ev}

\* exec.Cmd.Run was called in the last call.
Started == At("exec") # {}

\* The process of the last call ran to completion with exit code n.
ExitedWith(n) ==
    /\ Started
    /\ IF n = 0 THEN last.runErr = NilErr ELSE last.runErr = ExitErr(n)

\* ------------------------------------------------------------------- claims

\* C1: when the process ran to completion with a non-zero exit code N, under
\* either strategy, RunExitStatus/BashExitStatus return N and do not call
\* Bsh.Panic, while Run/Bash and RunStr/BashStr call Bsh.Panic exactly once,
\* with the error exec.Cmd.Run returned.
C1_NonZeroExit ==
    \A n \in ExitCodes :
        ExitedWith(n) =>
            /\ last.op \in CapturedExitCodeOps =>
                   /\ At("Panic") = {}
                   /\ last.returned
                   /\ last.ret.n = n
            /\ last.op \in EscalateOnlyOps \cup CapturedTextOps =>
                   /\ Cardinality(At("Panic")) = 1
                   /\ \A k \in At("Panic") : last.events[k].arg = ExitErr(n)

C1_Witness ==
    /\ last.op = "BashExitStatus"
    /\ ExitedWith(3)
    /\ last.ret.n = 3
    /\ At("Panic") = {}

\* C2: when the process exited with code 0, none of the eight runners calls
\* Bsh.Panic or faults, RunErr/BashErr return nil and
\* RunExitStatus/BashExitStatus return 0.
C2_ZeroExit ==
    ExitedWith(0) =>
        /\ last.op \in DirectOps \cup ShellOps
        /\ At("Panic") = {}
        /\ At("handler") = {}
        /\ last.fault = "none"
        /\ last.returned
        /\ last.op \in ErrorReturningOps => last.ret.err = NilErr
        /\ last.op \in CapturedExitCodeOps => last.ret.n = 0

C2_Witness ==
    /\ last.op = "RunExitStatus"
    /\ ExitedWith(0)
    /\ last.ret.n = 0
    /\ last.returned

\* Results of the extractExitStatus call a captured-exit-code runner makes
\* itself (the last one of the call).
Extracted == {last.events[k] : k \in {j \in At("extractExitStatus") :
                                        \A m \in At("extractExitStatus") : m <= j}}

\* C3: RunExitStatus/BashExitStatus call Bsh.Panic exactly when the exit code
\* they obtained is -1, and never return -1 without having called it.
C3_ExitCodeEscalatesIffMinusOne ==
    (last.op \in CapturedExitCodeOps /\ last.fault # "runtime") =>
        /\ \A x \in Extracted : (At("Panic") # {}) <=> (x.n = -1)
        /\ (last.returned /\ last.ret.n = -1) => At("Panic") # {}

\* C4: RunErr/BashErr never call Bsh.Panic, so neither a handler runs nor the
\* default panic is raised, whatever the execution did; when the runner
\* returns, it returns the error of the strategy.
C4_ErrorReturningNeverEscalates ==
    last.op \in ErrorReturningOps =>
        /\ At("Panic") = {}
        /\ At("handler") = {}
        /\ At("Warnf") = {}
        /\ last.fault # "panic"
        /\ last.fault = "none" => (last.returned /\ last.ret.err = last.runErr)

C4_Witness ==
    /\ last.op = "BashErr"
    /\ last.runErr = StartErr
    /\ last.returned
    /\ last.ret.err = StartErr
    /\ fnErr = "h1"

\* C5: a call of Bsh.Panic(err) with a handler installed runs that handler
\* once with err, raises nothing, and the runner then returns normally
\* (RunStr/BashStr the text written so far, RunExitStatus/BashExitStatus their
\* code); with no handler installed it raises a panic carrying err and the
\* runner does not return.  No runner calls Bsh.Panic more than once.
C5_Escalation ==
    /\ Cardinality(At("Panic")) <= 1
    /\ \A k \in At("Panic") :
           IF fnErr # NoHandler
           THEN /\ At("handler") = {k + 1}
                /\ last.events[k + 1].who = fnErr
                /\ last.events[k + 1].arg = last.events[k].arg
                /\ last.fault = "none"
                /\ last.returned
                /\ last.op \in CapturedTextOps => last.ret.str = last.text
                /\ last.op \in CapturedExitCodeOps =>
                       \A x \in Extracted : last.ret.n = x.n
           ELSE /\ At("handler") = {}
                /\ last.fault = "panic"
                /\ last.faultErr = last.events[k].arg
                /\ ~last.returned
    /\ At("Panic") = {} => (At("handler") = {} /\ last.fault # "panic")

C5_Witness ==
    /\ last.op = "RunStr"
    /\ fnErr = "h1"
    /\ ExitedWith(3)
    /\ At("handler") # {}
    /\ last.returned
    /\ last.ret.str = "oops"

\* C6: the Bsh has one handler slot and SetErrorHandler replaces its content:
\* in every state the installed handler is the argument of the most recent
\* SetErrorHandler call; every runner step, on any Command however long ago
\* it was created, dispatches to the handler installed when the step is taken
\* and to no other (it panics when that is nil), and a step that installs a
\* handler dispatches nothing.
C6_Dispatch ==
    /\ \A k \in At("handler") : last.events[k].who = requested
    /\ (At("Panic") # {} /\ requested = NoHandler) => last.fault = "panic"
    /\ (At("Panic") # {} /\ requested # NoHandler) => Cardinality(At("handler")) = 1

C6_Step ==
    /\ fnErr' # fnErr => last' = NoCall
    /\ (last' # NoCall /\ last' # last) =>
           /\ fnErr' = fnErr
           /\ \A k \in DOMAIN last'.events :
                  last'.events[k].ev = "handler" => last'.events[k].who = fnErr

C6_HandlerReplaced ==
    /\ [](fnErr = requested /\ fnErr \in Handlers \cup {NoHandler} /\ C6_Dispatch)
    /\ [][C6_Step]_vars

C6_Witness ==
    /\ fnErr = "h2"
    /\ last.op = "Run"
    /\ \E k \in At("handler") : last.events[k].who = "h2"

\* The cell bound to the Command of the last call, or NoCell.
BoundCell == IF last.op = "none" THEN NoCell ELSE cmds[last.c].exitStatus

\* C7: with a cell bound by ExitStatus, a runner whose process exited with
\* code N (0 included) leaves N in the cell, for each of the eight runners and
\* whether or not it then escalates; the call writes the cell once, after
\* cmd.Run returned and before Bsh.Panic is called.
C7_SinkHoldsExitCode ==
    \A n \in ExitCodes \cup {0} :
        (ExitedWith(n) /\ BoundCell # NoCell) =>
            /\ last.op \in DirectOps \cup ShellOps
            /\ cells[BoundCell] = n
            /\ Cardinality(At("sink")) = 1
            /\ \A k \in At("sink") :
                   /\ last.events[k].who = BoundCell
                   /\ last.events[k].n = n
                   /\ \A w \in At("wait") : w < k
                   /\ \A e \in At("Panic") \cup At("handler") : k < e

C7_Witness ==
    /\ last.op = "Run"
    /\ ExitedWith(3)
    /\ BoundCell = "n"
    /\ cells["n"] = 3
    /\ last.fault = "panic"

\* The raw command line of the Command of the last call does not tokenize.
Malformed == last.op # "none" /\ Tokens[cmds[last.c].raw].err # NilErr

\* C8 as stated: when the tokenization of raw fails, a direct runner starts
\* no process and does not call Bsh.Panic, whichever of Run, RunStr, RunErr,
\* RunExitStatus it is.
C8_MalformedNeverEscalated ==
    (Malformed /\ last.op \in DirectOps) =>
        /\ ~Started
        /\ At("Panic") = {}

\* C8 as amended: when the tokenization of raw fails, a direct runner starts
\* no process and writes no cell; RunErr returns the tokenizer's error
\* without calling Bsh.Panic, and Run, RunStr and RunExitStatus call Bsh.Panic
\* exactly once with the tokenizer's error.
C8_MalformedNoProcess ==
    (Malformed /\ last.op \in DirectOps) =>
        /\ ~Started
        /\ last.argv = <<>>
        /\ At("wait") = {} /\ At("sink") = {}
        /\ last.runErr = ParseErr
        /\ last.fault # "runtime"
        /\ last.op = "RunErr" =>
               (At("Panic") = {} /\ last.returned /\ last.ret.err = ParseErr)
        /\ last.op \in {"Run", "RunStr", "RunExitStatus"} =>
               /\ Cardinality(At("Panic")) = 1
               /\ \A k \in At("Panic") : last.events[k].arg = ParseErr

C8_Witness ==
    /\ Malformed
    /\ last.op = "RunExitStatus"
    /\ ~Started
    /\ fnErr = "h1"
    /\ \E k \in At("handler") : last.events[k].arg = ParseErr

\* C9: extractExitStatus gives (0, nil) for nil, (N, nil) for an exit error
\* of a process that exited with code N, and (-1, the same error) for every
\* error that is no exit error.
C9_Extractor ==
    \A k \in At("extractExitStatus") :
        LET e == last.events[k]
        IN  /\ e.arg = NilErr => (e.n = 0 /\ e.err = NilErr)
            /\ (IsExitError(e.arg) /\ e.arg.exited) => (e.n = e.arg.status /\ e.err = NilErr)
            /\ (e.arg # NilErr /\ ~IsExitError(e.arg)) => (e.n = -1 /\ e.err = e.arg)

C9_Witness ==
    /\ last.op = "BashExitStatus"
    /\ \E k \in At("extractExitStatus") :
           /\ last.events[k].arg = StartErr
           /\ last.events[k].n = -1
           /\ last.events[k].err = StartErr

\* C10: extractExitStatus pairs the code -1 with a non-nil error always, in
\* particular for a process ended by a signal, and -1 is never written to
\* the bound cell.
C10_MinusOneHasError ==
    /\ \A k \in At("extractExitStatus") :
           last.events[k].n = -1 => last.events[k].err # NilErr
    /\ \A k \in At("sink") : last.events[k].n # -1

\* ---------------------------------------------------------------------------
\* Console output and the verbosity switch

\* What a pushed filter gives way to.
Mask == <<"*", "*", "*", "*", "*", "*">>

\* Variant: only the first occurrence is replaced.
ReplaceAll_FirstOnly(s, old, new) ==
    IF \E k \in 1..(Len(s) - Len(old) + 1) : SubSeq(s, k, k + Len(old) - 1) = old
    THEN LET k == CHOOSE k \in 1..(Len(s) - Len(old) + 1) :
                      /\ SubSeq(s, k, k + Len(old) - 1) = old
                      /\ \A j \in 1..(k - 1) : SubSeq(s, j, j + Len(old) - 1) # old
         IN  SubSeq(s, 1, k - 1) \o new \o SubSeq(s, k + Len(old), Len(s))
    ELSE s

\* strings.ReplaceAll: the occurrences of old in s that do not overlap, from
\* the left; an empty old matches before every character and at the end.
RECURSIVE ReplaceAll(_, _, _)
ReplaceAll(s, old, new) ==
    IF old = <<>>
    THEN IF s = <<>> THEN new ELSE new \o <<Head(s)>> \o ReplaceAll(Tail(s), old, new)
    ELSE IF Len(s) < Len(old) THEN s
    ELSE IF SubSeq(s, 1, Len(old)) = old
    THEN new \o ReplaceAll(SubSeq(s, Len(old) + 1, Len(s)), old, new)
    ELSE <<Head(s)>> \o ReplaceAll(Tail(s), old, new)

\* for _, v := range b.echoFilters { str = strings.ReplaceAll(str, v, "******") }
RECURSIVE Filtered(_, _)
Filtered(str, filters) ==
    IF filters = <<>> THEN str
    ELSE Filtered(ReplaceAll(str, Head(filters), Mask), Tail(filters))

\* Bsh.echo with ensureNewline and a colour: str[len(str)-1] on an empty
\* string is an index out of range, a Go runtime panic; nocolor tells that
\* NO_COLOR is in the environment.
echo(str, color, nocolor) ==
    LET f == Filtered(str, echoFilters)
        n == IF f[Len(f)] # "\n" THEN f \o <<"\n">> ELSE f
    IN  IF f = <<>>
        THEN [out |-> <<>>, fault |-> "runtime"]
        ELSE [out |-> IF ~DisableColor /\ ~nocolor
                      THEN <<color>> \o n \o <<"ansiReset">>
                      ELSE n,
              fault |-> "none"]

\* strconv.FormatBool
FormatBool(v) == IF v THEN "true" ELSE "false"

TrueStrings == {"1", "t", "T", "TRUE", "true", "True"}

\* strconv.ParseBool, its error dropped as IsVerbose drops it.
ParseBool(str) == str \in TrueStrings

\* if len(b.verboseEnvVar) == 0 { b.verboseEnvVar = mageVerboseEnvVar }
mageVerboseEnvVar == "MAGEFILE_VERBOSE"

EnsuredVar == IF verboseEnvVar = "" THEN mageVerboseEnvVar ELSE verboseEnvVar

\* The value Bsh.IsVerbose returns.
IsVerbose == ParseBool(environ[EnsuredVar])

\* The secrets the host program pushes, and the texts it prints.
Filters == { <<"a", "b">>, <<"b", "c">> }

Strs == { <<>>, <<"\n">>, <<"a", "b", "c">>, <<"b", "c", " ", "a", "b">>,
          <<"a", "b", " ", "x", "a", "b", "\n">> }

Say(op, str, e) == [op |-> op, str |-> str, out |-> e.out, fault |-> e.fault]

PushEchoFilter(f) ==
    /\ Len(echoFilters) < MaxFilters
    /\ echoFilters' = Append(echoFilters, f)
    /\ said' = NoSaid
    /\ popped' = NoFilter
    /\ UNCHANGED <<DisableColor, verbosity, shell, files>>

\* b.echoFilters[:len(b.echoFilters)-1]: with no filter pushed the slice
\* bound is -1, a Go runtime panic.
PopEchoFilter ==
    /\ IF echoFilters = <<>>
       THEN /\ said' = [NoSaid EXCEPT !.op = "PopEchoFilter", !.fault = "runtime"]
            /\ UNCHANGED <<echoFilters, popped>>
       ELSE /\ echoFilters' = SubSeq(echoFilters, 1, Len(echoFilters) - 1)
            /\ popped' = echoFilters[Len(echoFilters)]
            /\ said' = NoSaid
    /\ UNCHANGED <<DisableColor, verbosity, shell, files>>

Echo(str) ==
    /\ \E nocolor \in BOOLEAN : said' = Say("Echo", str, echo(str, "ansiWhite", nocolor))
    /\ UNCHANGED <<echoFilters, DisableColor, popped, verbosity, shell, files>>

\* str stands for fmt.Sprintf(format, args...)
Echof(str) ==
    /\ \E nocolor \in BOOLEAN : said' = Say("Echof", str, echo(str, "ansiWhite", nocolor))
    /\ UNCHANGED <<echoFilters, DisableColor, popped, verbosity, shell, files>>

Warn(str) ==
    /\ \E nocolor \in BOOLEAN : said' = Say("Warn", str, echo(str, "ansiYellow", nocolor))
    /\ UNCHANGED <<echoFilters, DisableColor, popped, verbosity, shell, files>>

Verbose(str) ==
    /\ verboseEnvVar' = EnsuredVar
    /\ IF IsVerbose
       THEN \E nocolor \in BOOLEAN :
                said' = Say("Verbose", str, echo(str, "ansiCyan", nocolor))
       ELSE said' = [NoSaid EXCEPT !.op = "Verbose", !.str = str]
    /\ UNCHANGED <<echoFilters, DisableColor, popped, environ, wanted, shell, files>>

SetVerbose(v) ==
    /\ verboseEnvVar' = EnsuredVar
    /\ environ' = [environ EXCEPT ![EnsuredVar] = FormatBool(v)]
    /\ wanted' = FormatBool(v)
    /\ said' = NoSaid
    /\ UNCHANGED <<echoFilters, DisableColor, popped, shell, files>>

\* The variable SetVerbose writes once b.verboseEnvVar = s is done.
NewVar(s) == IF s = "" THEN mageVerboseEnvVar ELSE s

\* Variant: the name is changed and the value is not carried over.
SetVerboseEnvVarName_NoCarry(s) ==
    /\ verboseEnvVar' = NewVar(s)
    /\ said' = NoSaid
    /\ UNCHANGED <<environ, wanted, echoFilters, DisableColor, popped, shell, files>>

\* wasVerbose := b.IsVerbose(); b.verboseEnvVar = s; b.SetVerbose(wasVerbose)
SetVerboseEnvVarName(s) ==
    /\ verboseEnvVar' = NewVar(s)
    /\ environ' = [environ EXCEPT ![NewVar(s)] = FormatBool(IsVerbose)]
    /\ said' = NoSaid
    /\ UNCHANGED <<wanted, echoFilters, DisableColor, popped, shell, files>>

\* os.Setenv(name, value) by the host program; value "" stands for
\* os.Unsetenv(name) as well, os.Getenv giving "" for both.
Setenv(name, value) ==
    /\ environ' = [environ EXCEPT ![name] = value]
    /\ wanted' = IF name = EnsuredVar THEN "none" ELSE wanted
    /\ said' = NoSaid
    /\ UNCHANGED <<verboseEnvVar, echoFilters, DisableColor, popped, shell, files>>

VarNames == {"", "BSH_V", "MAGEFILE_VERBOSE"}

NextVerbose ==
    \/ \E v \in BOOLEAN : SetVerbose(v)
    \/ \E str \in VarNames : SetVerboseEnvVarName(str)
    \/ \E name \in EnvNames, value \in EnvValues : Setenv(name, value)
    \/ \E str \in {<<"a", "b", "c">>} : Verbose(str)

SpecVerbose == Init /\ [][NextVerbose]_vars

\* sh := Bsh{} or Bsh{DisableColor: true}
InitEcho ==
    /\ fnErr = NoHandler
    /\ cmds = <<>>
    /\ cells \in [Cells -> CellInits]
    /\ last = NoCall
    /\ requested = NoHandler
    /\ environ = [n \in EnvNames |-> IF n = "HOME" THEN "/h" ELSE ""]
    /\ verboseEnvVar = ""
    /\ wanted = "none"
    /\ echoFilters = <<>>
    /\ DisableColor \in BOOLEAN
    /\ said = NoSaid
    /\ popped = NoFilter
    /\ fs = (Root :> "dir")
    /\ cwd = Root
    /\ did = NoDid

NextEcho ==
    \/ \E f \in Filters : PushEchoFilter(f)
    \/ PopEchoFilter
    \/ \E str \in Strs : Echo(str)
    \/ \E str \in Strs : Echof(str)
    \/ \E str \in Strs : Warn(str)
    \/ \E str \in Strs : Verbose(str)
    \/ \E v \in BOOLEAN : SetVerbose(v)

SpecEcho == InitEcho /\ [][NextEcho]_vars

\* ---------------------------------------------------------------------------
\* Files and folders

\* A path is the sequence of its names below the root.  A tree t maps each
\* existing path to "dir" or, for a regular file, to its contents.
Parent(p) == SubSeq(p, 1, Len(p) - 1)

Prefixes(p) == {SubSeq(p, 1, k) : k \in 1..Len(p)}

Has(t, p) == p \in DOMAIN t

IsDirIn(t, p) == Has(t, p) /\ t[p] = "dir"

IsFileIn(t, p) == Has(t, p) /\ t[p] # "dir"

\* p is strictly below q.
Below(p, q) == Len(q) < Len(p) /\ SubSeq(p, 1, Len(q)) = q

Put(t, p, v) == [q \in DOMAIN t \cup {p} |-> IF q = p THEN v ELSE t[q]]

\* The errors of the os package and of copyImpl.  Only NotExistErr satisfies
\* os.IsNotExist: the errors copyImpl wraps with fmt.Errorf do not.
NotExistErr == [kind |-> "NotExist", exited |-> FALSE, status |-> 0]

PathErr == [kind |-> "PathError", exited |-> FALSE, status |-> 0]

WrappedErr == [kind |-> "fmt.wrapError", exited |-> FALSE, status |-> 0]

NotRegularErr == [kind |-> "not a regular file", exited |-> FALSE, status |-> 0]

SizeErr == [kind |-> "size", exited |-> FALSE, status |-> 0]

NotFolderErr == [kind |-> "not a folder", exited |-> FALSE, status |-> 0]

IsNotExist(err) == err = NotExistErr

\* os.MkdirAll: fails when the path or one of its parents is a file.
osMkdirAll(t, p) ==
    IF \E q \in Prefixes(p) : IsFileIn(t, q)
    THEN [fs |-> t, err |-> PathErr]
    ELSE [fs |-> [q \in DOMAIN t \cup Prefixes(p) |-> IF Has(t, q) THEN t[q] ELSE "dir"],
          err |-> NilErr]

\* os.Create: makes the file or truncates it; fails when the parent is no
\* folder or the path is one.
osCreate(t, p) ==
    IF p # Root /\ IsDirIn(t, Parent(p)) /\ ~IsDirIn(t, p)
    THEN [fs |-> Put(t, p, ""), err |-> NilErr]
    ELSE [fs |-> t, err |-> PathErr]

\* Bsh.copyImpl.  os.Open and Stat read the size of src before os.Create
\* truncates dst, so a file copied onto itself ends empty and, unless it was
\* empty, with the size error.
copyImpl(t, src, dst) ==
    IF ~Has(t, src)
    THEN [fs |-> t,
          err |-> IF \E q \in Prefixes(src) : IsFileIn(t, q) THEN WrappedErr ELSE NotExistErr]
    ELSE IF t[src] = "dir" THEN [fs |-> t, err |-> NotRegularErr]
    ELSE LET c == osCreate(t, dst)
         IN  IF c.err # NilErr THEN [fs |-> t, err |-> WrappedErr]
             ELSE IF src = dst
             THEN [fs |-> c.fs, err |-> IF t[src] # "" THEN SizeErr ELSE NilErr]
             ELSE [fs |-> Put(t, dst, t[src]), err |-> NilErr]

\* if err != nil { b.Panic(err) }
PanicIf(err) == IF err # NilErr THEN Panic(err) ELSE NoEscalation

\* The record of a file call: what it was given, what it escalated and how it
\* ended.
Done(op, src, dst, err, list, events, fault, ret) ==
    [op |-> op, src |-> src, dst |-> dst, before |-> fs, policy |-> fnErr,
     err |-> err, list |-> list, events |-> events, fault |-> fault,
     returned |-> fault = "none", ret |-> fault = "none" /\ ret, cwds |-> <<>>]

\* What the file calls leave alone.
nofiles == <<cmds, cells, last, requested, verbosity, console>>

MkdirAll(dir) ==
    LET m == osMkdirAll(fs, dir)
        e == PanicIf(m.err)
    IN  /\ fs' = m.fs
        /\ did' = Done("MkdirAll", dir, dir, m.err, <<>>, e.events, e.fault, FALSE)
        /\ UNCHANGED <<cwd, fnErr, nofiles>>

\* filepath.Dir(path) is "." for a name in the working directory.
Touch(path) ==
    LET dir == Parent(path)
        m == IF dir # Root THEN osMkdirAll(fs, dir) ELSE [fs |-> fs, err |-> NilErr]
        e1 == PanicIf(m.err)
        c == osCreate(m.fs, path)
        e2 == PanicIf(c.err)
    IN  /\ fs' = IF e1.fault = "none" THEN c.fs ELSE m.fs
        /\ did' = IF e1.fault = "none"
                  THEN Done("Touch", path, path, c.err, <<>>, e1.events \o e2.events, e2.fault, FALSE)
                  ELSE Done("Touch", path, path, m.err, <<>>, e1.events, e1.fault, FALSE)
        /\ UNCHANGED <<cwd, fnErr, nofiles>>

\* Bsh.Write with contents that are not empty: writeImpl, os.Create, io.Copy.
Write(path, contents) ==
    LET c == osCreate(fs, path)
        e == PanicIf(c.err)
    IN  /\ fs' = IF c.err = NilErr THEN Put(c.fs, path, contents) ELSE fs
        /\ did' = Done("Write", path, path, c.err, <<>>, e.events, e.fault, FALSE)
        /\ UNCHANGED <<cwd, fnErr, nofiles>>

Copy(src, dst) ==
    LET r == copyImpl(fs, src, dst)
        e == IF r.err # NilErr /\ ~IsNotExist(r.err) THEN Panic(r.err) ELSE NoEscalation
    IN  /\ fs' = r.fs
        /\ did' = Done("Copy", src, dst, r.err, <<>>, e.events, e.fault,
                       ~(r.err # NilErr /\ IsNotExist(r.err)))
        /\ UNCHANGED <<cwd, fnErr, nofiles>>

\* The names a folder can hold, in the order os.ReadDir gives them.
NameSeq == <<"d", "f", "g", "s", "t">>

CopyEntry(srcPath, dstPath, isDir) == [srcPath |-> srcPath, dstPath |-> dstPath, isDir |-> isDir]

\* Variant: the contents of a folder are listed before the folder.
RECURSIVE buildCopyList_ContentsFirst(_, _, _, _)
buildCopyList_ContentsFirst(t, src, dst, k) ==
    IF k > Len(NameSeq) THEN <<>>
    ELSE LET srcPath == Append(src, NameSeq[k])
             dstPath == Append(dst, NameSeq[k])
         IN  (IF ~Has(t, srcPath) THEN <<>>
              ELSE (IF t[srcPath] = "dir"
                    THEN buildCopyList_ContentsFirst(t, srcPath, dstPath, 1)
                    ELSE <<>>)
                   \o <<CopyEntry(srcPath, dstPath, t[srcPath] = "dir")>>)
             \o buildCopyList_ContentsFirst(t, src, dst, k + 1)

\* Bsh.buildCopyList over the entries of src from the k-th name on: each
\* entry is appended, and a folder is followed by the list of its contents.
RECURSIVE buildCopyList(_, _, _, _)
buildCopyList(t, src, dst, k) ==
    IF k > Len(NameSeq) THEN <<>>
    ELSE LET srcPath == Append(src, NameSeq[k])
             dstPath == Append(dst, NameSeq[k])
         IN  (IF ~Has(t, srcPath) THEN <<>>
              ELSE <<CopyEntry(srcPath, dstPath, t[srcPath] = "dir")>>
                   \o (IF t[srcPath] = "dir"
                       THEN buildCopyList(t, srcPath, dstPath, 1)
                       ELSE <<>>))
             \o buildCopyList(t, src, dst, k + 1)

\* for _, entry := range toCopy { MkdirAll or MustCopy }, from the k-th entry
\* on; acc holds the tree and what was escalated so far.
RECURSIVE copyAll(_, _, _)
copyAll(toCopy, k, acc) ==
    IF k > Len(toCopy) \/ acc.fault # "none" THEN acc
    ELSE LET entry == toCopy[k]
             r == IF entry.isDir THEN osMkdirAll(acc.fs, entry.dstPath)
                  ELSE copyImpl(acc.fs, entry.srcPath, entry.dstPath)
             e == PanicIf(r.err)
         IN  copyAll(toCopy, k + 1,
                     [fs |-> r.fs, events |-> acc.events \o e.events, fault |-> e.fault])

\* Bsh.CopyContents.  os.ReadDir fails on a src that is no folder.
CopyContents(src, dst) ==
    LET e1 == IF ~IsDirIn(fs, src) THEN Panic(NotFolderErr) ELSE NoEscalation
        e2 == IF ~IsDirIn(fs, dst) THEN Panic(NotFolderErr) ELSE NoEscalation
        e3 == IF ~IsDirIn(fs, src) THEN Panic(PathErr) ELSE NoEscalation
        toCopy == IF IsDirIn(fs, src) THEN buildCopyList(fs, src, dst, 1) ELSE <<>>
        start == IF e1.fault # "none" THEN [fs |-> fs, events |-> e1.events, fault |-> e1.fault]
                 ELSE IF e2.fault # "none"
                 THEN [fs |-> fs, events |-> e1.events \o e2.events, fault |-> e2.fault]
                 ELSE [fs |-> fs, events |-> e1.events \o e2.events \o e3.events,
                       fault |-> e3.fault]
        end == copyAll(toCopy, 1, start)
    IN  /\ \A k \in DOMAIN toCopy : Len(toCopy[k].dstPath) <= MaxDepth
        /\ fs' = end.fs
        /\ did' = Done("CopyContents", src, dst, NilErr, toCopy, end.events, end.fault, FALSE)
        /\ UNCHANGED <<cwd, fnErr, nofiles>>

\* The arguments of the file calls.
Folders == { <<"s">>, <<"s", "d">>, <<"t">> }

NewFiles == { <<"s", "f">>, <<"s", "d", "g">> }

Written == { <<"s", "f">> }

Contents == {"A"}

CopyArgs == { << <<"s", "f">>, <<"t", "f">> >>, << <<"s", "f">>, <<"s", "f">> >>,
              << <<"s", "d">>, <<"t", "f">> >> }

CopyContentsArgs == { << <<"s">>, <<"t">> >>, << <<"s">>, <<"s", "d">> >> }

NextFiles ==
    \/ \E h \in {"h1", NoHandler} : SetErrorHandler(h)
    \/ \E dir \in Folders : MkdirAll(dir)
    \/ \E path \in NewFiles : Touch(path)
    \/ \E path \in Written, contents \in Contents : Write(path, contents)
    \/ \E a \in CopyArgs : Copy(a[1], a[2])
    \/ \E a \in CopyContentsArgs : CopyContents(a[1], a[2])

SpecFiles == Init /\ [][NextFiles]_vars

\* ---------------------------------------------------------------------------
\* The working directory

\* The error a function given to InDir hands to b.Panic.
FnErr == [kind |-> "fn", exited |-> FALSE, status |-> 0]

\* A statement of a function given to InDir: "Chdir" and "InDir" are calls of
\* the Bsh, "Panic" is b.Panic(err), "panic" is the panic of Go.
Stmt(op, path, fn) == [op |-> op, path |-> path, fn |-> fn]

\* The state a call evolves: the tree, the working directory, what was
\* escalated, the fault that unwinds the stack, and the working directory seen
\* when a function is entered ("fn") and when an InDir is left ("left").
Seen(at, path, prev, dir) == [at |-> at, path |-> path, prev |-> prev, cwd |-> dir]

Escalated(st, err) ==
    LET e == Panic(err)
    IN  [st EXCEPT !.events = @ \o e.events,
                   !.fault = IF e.fault # "none" THEN e.fault ELSE @]

\* Bsh.Chdir
chdir(dir, st) ==
    IF IsDirIn(st.fs, dir) THEN [st EXCEPT !.cwd = dir] ELSE Escalated(st, PathErr)

\* Bsh.MkdirAll
mkdirAll(dir, st) ==
    LET m == osMkdirAll(st.fs, dir)
    IN  IF m.err = NilErr THEN [st EXCEPT !.fs = m.fs] ELSE Escalated(st, m.err)

RECURSIVE inDir(_, _, _)
RECURSIVE inDir_NoDefer(_, _, _)
RECURSIVE runFn(_, _, _)

\* The statements of fn from the k-th on; a fault ends the function.
runFn(fn, k, st) ==
    IF k > Len(fn) \/ st.fault # "none" THEN st
    ELSE LET a == fn[k]
         IN  runFn(fn, k + 1,
                   CASE a.op = "Chdir" -> chdir(a.path, st)
                     [] a.op = "panic" -> [st EXCEPT !.fault = "panic"]
                     [] a.op = "Panic" -> Escalated(st, FnErr)
                     [] a.op = "InDir" -> inDir(a.path, a.fn, st))

\* Variant, the earlier InDir: MkdirAll, Chdir, fn, Chdir(prev), no defer.
inDir_NoDefer(path, fn, st) ==
    LET prev == st.cwd
        s1 == mkdirAll(path, st)
        s2 == IF s1.fault = "none" THEN chdir(path, s1) ELSE s1
        s3 == IF s2.fault = "none"
              THEN runFn(fn, 1, [s2 EXCEPT !.cwds = Append(@, Seen("fn", path, prev, s2.cwd))])
              ELSE s2
        s4 == IF s3.fault = "none" THEN chdir(prev, s3) ELSE s3
    IN  [s4 EXCEPT !.cwds = Append(@, Seen("left", path, prev, s4.cwd))]

\* Bsh.InDir.  defer b.Chdir(prev) is reached once Chdir(path) is passed, and
\* then runs however fn ends; a fault of fn goes on unwinding after it.
inDir(path, fn, st) ==
    LET prev == st.cwd
        s1 == IF ~Has(st.fs, path) THEN mkdirAll(path, st) ELSE st
        s2 == IF s1.fault = "none" THEN chdir(path, s1) ELSE s1
        s3 == IF s2.fault = "none"
              THEN runFn(fn, 1, [s2 EXCEPT !.cwds = Append(@, Seen("fn", path, prev, s2.cwd))])
              ELSE s2
        s4 == IF s2.fault = "none"
              THEN LET back == chdir(prev, [s3 EXCEPT !.fault = "none"])
                   IN  [back EXCEPT !.fault = IF @ # "none" THEN @ ELSE s3.fault]
              ELSE s3
    IN  [s4 EXCEPT !.cwds = Append(@, Seen("left", path, prev, s4.cwd))]

Chdir(dir) ==
    LET st == chdir(dir, [fs |-> fs, cwd |-> cwd, events |-> <<>>, fault |-> "none", cwds |-> <<>>])
    IN  /\ cwd' = st.cwd
        /\ did' = Done("Chdir", dir, cwd, NilErr, <<>>, st.events, st.fault, FALSE)
        /\ UNCHANGED <<fs, fnErr, nofiles>>

InDir(path, fn) ==
    LET st == inDir(path, fn, [fs |-> fs, cwd |-> cwd, events |-> <<>>, fault |-> "none", cwds |-> <<>>])
    IN  /\ fs' = st.fs
        /\ cwd' = st.cwd
        /\ did' = [Done("InDir", path, cwd, NilErr, fn, st.events, st.fault, FALSE)
                      EXCEPT !.cwds = st.cwds]
        /\ UNCHANGED <<fnErr, nofiles>>

\* The folders the host program and its functions go to.
Places == { <<"s">>, <<"s", "d">> }

\* The functions given to InDir, with at most n InDir calls inside one another.
RECURSIVE Fns(_)
Fns(n) ==
    {<<>>, <<Stmt("panic", Root, <<>>)>>, <<Stmt("Panic", Root, <<>>)>>}
    \cup {<<Stmt("Chdir", dir, <<>>)>> : dir \in {<<"t">>}}
    \cup (IF n = 0 THEN {}
          ELSE {<<Stmt("InDir", path, fn)>> : path \in Places, fn \in Fns(n - 1)})

FnArgs == Fns(MaxNest)

NextDirs ==
    \/ \E h \in {"h1", NoHandler} : SetErrorHandler(h)
    \/ \E dir \in {<<"t">>} : MkdirAll(dir)
    \/ \E dir \in Places : Chdir(dir)
    \/ \E path \in Places, fn \in FnArgs : InDir(path, fn)

SpecDirs == Init /\ [][NextDirs]_vars

\* ---------------------------------------------------------------------------
\* Streams of a capturing runner

\* The builder the capturing call that just ended declared.
Accumulator == "builder"

\* C11: RunStr and BashStr send the standard output and the standard error of
\* the process to one shared accumulator, whatever out and err were bound to
\* before; every writer bound before the call receives nothing, the Command
\* is left bound to the accumulator, and the string handed back is exactly
\* what the accumulator holds.
C11_CaptureOverridesStreams ==
    last.op \in CapturedTextOps =>
        /\ \A w \in Writers \ {Accumulator} : last.wrote[w] = ""
        /\ Accumulator \notin {last.given.out, last.given.err}
        /\ Started => last.wrote[Accumulator] = TextOf(last.runErr)
        /\ cmds[last.c].out = Accumulator /\ cmds[last.c].err = Accumulator
        /\ last.returned => last.ret.str = last.wrote[Accumulator]

\* A capturing runner on a Command whose out and err the host had bound to
\* two different writers, one of them the builder of an earlier capture, and
\* whose process wrote to both of its streams.
C11_Witness ==
    /\ last.op \in CapturedTextOps
    /\ last.given.out \in HostWriters
    /\ last.given.err = "spent"
    /\ Started
    /\ OutOf(last.runErr) # "" /\ ErrOf(last.runErr) # ""
    /\ last.returned /\ last.ret.str = TextOf(last.runErr)

\* ---------------------------------------------------------------------------
\* Terminal calls on a Command that was run before

\* The Command of the last call had been through a capturing runner before
\* that call: it held the builder of that runner.
RanBefore == last.op # "none" /\ last.given.out \in Builders

\* The strategy of a call of op on the Command c reaches exec.Cmd.Run.
Spawns(op, c) ==
    \/ op \in ShellOps
    \/ op \in DirectOps /\ Tokens[c.raw].err = NilErr /\ Len(Tokens[c.raw].args) > 0

\* C12 as stated: a terminal call on a Command that a terminal call has
\* already run starts no process.
C12_SecondCallInert == RanBefore => ~Started

C12_Repeat ==
    (last.op # "none" /\ last'.op # "none" /\ last'.c = last.c) =>
        /\ cmds[last.c].raw = cmds'[last.c].raw
        /\ (At("exec") # {})' <=> Spawns(last'.op, cmds[last.c])
        /\ Cardinality(At("exec"))' <= 1

\* C12, amended: a Command is not consumed by a terminal call.  A terminal
\* call on a Command that a terminal call has already run starts a process
\* exactly as a first call does: once under the shell strategy, and once
\* under the direct strategy when the raw text tokenizes to at least one
\* token; the raw text is the same as in the call before.
C12_RepeatRunsAgain ==
    /\ [](RanBefore => (Started <=> Spawns(last.op, last.given)))
    /\ [][C12_Repeat]_vars

\* A non-capturing runner started a process for a Command that a capturing
\* runner had run before.
C12_Witness ==
    /\ RanBefore
    /\ last.op \in EscalateOnlyOps \cup ErrorReturningOps \cup CapturedExitCodeOps
    /\ Started
    /\ last.runErr = NilErr

\* ---------------------------------------------------------------------------
\* Configuration calls

Fields == {"raw", "dir", "env", "in", "out", "err", "exitStatus", "b"}

\* The fields of the i-th Command that a step changes.
Changed(i) == {f \in Fields : cmds'[i][f] # cmds[i][f]}

\* A step on the i-th Command that changes no field outside fields, starts no
\* process, logs nothing, writes no cell and leaves every other Command, the
\* handler and the environment as they were; the Command stays where it is.
Configures(i, fields) ==
    /\ Len(cmds') = Len(cmds)
    /\ Changed(i) \subseteq fields
    /\ \A j \in 1..Len(cmds) : j # i => cmds'[j] = cmds[j]
    /\ cells' = cells
    /\ last' = NoCall
    /\ fnErr' = fnErr
    /\ UNCHANGED aux

\* C13 as stated: a step that is no runner call changes one field of one
\* Command at most.
C13_OneField ==
    last' = NoCall => \A i \in 1..Len(cmds) : Cardinality(Changed(i)) <= 1

C13_ExactlyOneField == [][C13_OneField]_vars

C13_Step ==
    \A i \in 1..Len(cmds) :
        /\ \A r \in HostReaders :
               In(i, r) => Configures(i, {"in"}) /\ cmds'[i].in = r
        /\ \A w \in HostWriters :
               /\ Out(i, w) => Configures(i, {"out"}) /\ cmds'[i].out = w
               /\ Err(i, w) => Configures(i, {"err"}) /\ cmds'[i].err = w
               /\ OutErr(i, w) =>
                      /\ Configures(i, {"out", "err"})
                      /\ cmds'[i].out = w /\ cmds'[i].err = w
        /\ \A n \in Cells :
               ExitStatus(i, n) => Configures(i, {"exitStatus"}) /\ cmds'[i].exitStatus = n
        /\ ExpandEnv(i) =>
               /\ Configures(i, {"raw"})
               /\ "$" \in {cmds'[i].raw[k] : k \in DOMAIN cmds'[i].raw} =>
                      cmds'[i].raw[Len(cmds'[i].raw)] = "$"
        /\ \A e \in EnvEntries :
               Env(i, e) => Configures(i, {"env"}) /\ cmds'[i].env = cmds[i].env \o <<e>>
        /\ \A d \in Dirs :
               Dir(i, d) => Configures(i, {"dir"}) /\ cmds'[i].dir = d

\* C13, amended: each configuration call changes only the field it is named
\* for (In: in, Out: out, Err: err, ExitStatus: exitStatus, ExpandEnv: raw,
\* Env: env, by appending, Dir: dir) and OutErr changes two, out and err;
\* each leaves the Command in its place, and none starts a process, logs, or
\* writes a cell.
C13_ConfigurationFrame == [][C13_Step]_vars

\* Every configuration call has acted on one Command, OutErr having bound both
\* streams, and nothing has run and no cell was written.
C13_Witness ==
    /\ last = NoCall
    /\ \E i \in 1..Len(cmds) :
           /\ cmds[i].in \in HostReaders
           /\ cmds[i].out \in HostWriters /\ cmds[i].err = cmds[i].out
           /\ cmds[i].exitStatus \in Cells
           /\ cmds[i].raw = <<"x", " ", "/h">>
           /\ cmds[i].env # <<>>
           /\ cmds[i].dir \in Dirs
    /\ \A n \in Cells : cells[n] \in CellInits

\* ---------------------------------------------------------------------------
\* Echo filters

PrintOps == {"Echo", "Echof", "Warn", "Verbose"}

\* The console call that just ended wrote something.
Printed == said.op \in PrintOps /\ said.fault = "none" /\ said.out # <<>>

\* What it wrote, without the colour sequences around it.
Visible ==
    IF said.out # <<>> /\ said.out[Len(said.out)] = "ansiReset"
    THEN SubSeq(said.out, 2, Len(said.out) - 1)
    ELSE said.out

\* The places of s where f occurs.
OccAt(f, s) == {k \in 1..(Len(s) - Len(f) + 1) : SubSeq(s, k, k + Len(f) - 1) = f}

Pushed == {echoFilters[k] : k \in DOMAIN echoFilters}

\* The occurrence of f at place k of s shares no character with an
\* occurrence of a pushed filter.
Clear(f, s, k) ==
    \A g \in Pushed : \A j \in OccAt(g, s) : j + Len(g) <= k \/ k + Len(f) <= j

Stars(s) == {k \in DOMAIN s : s[k] = "*"}

C14_Printed ==
    Printed =>
        /\ \A f \in Pushed : OccAt(f, Visible) = {}
        /\ (\E f \in Pushed : OccAt(f, said.str) # {}) <=> OccAt(Mask, Visible) # {}
        /\ \E n \in 0..Len(said.str) : Cardinality(Stars(Visible)) = n * Len(Mask)
        /\ (\A f \in Pushed : OccAt(f, said.str) = {}) =>
               \/ Visible = said.str
               \/ Visible = said.str \o <<"\n">>
        /\ popped # NoFilter =>
               ((\E k \in OccAt(popped, said.str) : Clear(popped, said.str, k)) =>
                    OccAt(popped, Visible) # {})

C14_StackStep ==
    echoFilters' # echoFilters =>
        \/ \E f \in Filters : echoFilters' = Append(echoFilters, f) /\ popped' = NoFilter
        \/ echoFilters = Append(echoFilters', popped')

C18_EndsWithNewline ==
    (said.op \in PrintOps /\ ~(said.op = "Verbose" /\ said.fault = "none" /\ said.out = <<>>)) =>
        /\ said.fault = "none"
        /\ said.out # <<>>
        /\ said.out[Len(said.out)] = "\n"

\* ---------------------------------------------------------------------------
\* The verbosity switch

C20_Switch ==
    /\ wanted # "none" => FormatBool(IsVerbose) = wanted
    /\ environ[EnsuredVar] = "" => ~IsVerbose
    /\ said.op = "Verbose" => (said.out # <<>> <=> IsVerbose)

C20_Step ==
    /\ EnsuredVar' # EnsuredVar =>
           /\ IsVerbose' = IsVerbose
           /\ environ'[EnsuredVar'] = FormatBool(IsVerbose)
    /\ \A name \in EnvNames :
           (environ'[name] # environ[name] /\ name # EnsuredVar /\ name # EnsuredVar') =>
               IsVerbose' = IsVerbose

\* C20: after SetVerbose and SetVerboseEnvVarName calls IsVerbose() is the
\* argument of the most recent SetVerbose call, and it is false when the
\* variable in use is not set; SetVerboseEnvVarName keeps the value of
\* IsVerbose() and stores it under the new name, and from then on a change of
\* a variable that is not the one in use, the old one included, leaves
\* IsVerbose() as it is.
C20_VerbositySwitch == []C20_Switch /\ [][C20_Step]_vars

\* SetVerbose(true), then the name changed from the default one, then the old
\* variable unset by the host program: IsVerbose() is still true.
C20_Witness ==
    /\ wanted = "true"
    /\ verboseEnvVar = "BSH_V"
    /\ environ["MAGEFILE_VERBOSE"] = ""
    /\ environ["BSH_V"] = "true"
    /\ IsVerbose

\* ---------------------------------------------------------------------------
\* Copying files and folders

\* Positions in the events of the last file call of the steps named ev.
DidAt(ev) == {k \in DOMAIN did.events : did.events[k].ev = ev}

\* C15: Copy returns false exactly when src does not exist, and then
\* escalates nothing and leaves the tree as it was; when it returns true, dst
\* is a file with the contents src had; an error other than the missing src
\* is escalated once; whatever handler is installed.
C15_CopyResult ==
    did.op = "Copy" =>
        /\ did.returned => (~did.ret <=> ~Has(did.before, did.src))
        /\ ~Has(did.before, did.src) =>
               (did.returned /\ DidAt("Panic") = {} /\ fs = did.before)
        /\ (did.returned /\ did.ret) =>
               (IsFileIn(fs, did.dst) /\ IsFileIn(did.before, did.src)
                /\ fs[did.dst] = did.before[did.src])
        /\ (did.err # NilErr /\ ~IsNotExist(did.err)) => Cardinality(DidAt("Panic")) = 1

\* The path below dst that CopyContents(src, dst) gives to the path p below src.
Rebase(p, src, dst) == dst \o SubSeq(p, Len(src) + 1, Len(p))

\* C16: the list CopyContents works from holds, once each, exactly the files
\* and folders that were below src when the call started, each with its path
\* below dst, and every folder before what it contains; the call ends, also
\* with dst inside src; and when it returns without having escalated, each of
\* those files and folders exists at its path below dst, as a file or as a
\* folder as it was below src.
C16_CopyContents ==
    (did.op = "CopyContents" /\ IsDirIn(did.before, did.src)) =>
        LET under == {p \in DOMAIN did.before : Below(p, did.src)}
        IN  /\ {did.list[k].srcPath : k \in DOMAIN did.list} = under
            /\ Len(did.list) = Cardinality(under)
            /\ \A k \in DOMAIN did.list :
                   /\ did.list[k].dstPath = Rebase(did.list[k].srcPath, did.src, did.dst)
                   /\ did.list[k].isDir <=> did.before[did.list[k].srcPath] = "dir"
            /\ \A i, j \in DOMAIN did.list :
                   Below(did.list[j].srcPath, did.list[i].srcPath) => i < j
            /\ (did.returned /\ DidAt("Panic") = {}) =>
                   \A p \in under :
                       /\ Has(fs, Rebase(p, did.src, did.dst))
                       /\ fs[Rebase(p, did.src, did.dst)] = "dir" <=> did.before[p] = "dir"

\* CopyContents into a folder of src itself has returned without escalating,
\* src having held a file and that folder.
C16_Witness ==
    /\ did.op = "CopyContents"
    /\ did.src = <<"s">> /\ did.dst = <<"s", "d">>
    /\ Len(did.list) >= 2
    /\ did.returned /\ DidAt("Panic") = {}
    /\ IsFileIn(fs, <<"s", "d", "f">>)
    /\ IsDirIn(fs, <<"s", "d", "d">>)

\* C19: Touch makes the file, and the folders above it that are missing,
\* when nothing is at path, and leaves the contents of a file that is there
\* as they are.
C19_TouchKeepsContents ==
    (did.op = "Touch" /\ DidAt("Panic") = {}) =>
        /\ IsFileIn(fs, did.src)
        /\ \A q \in Prefixes(Parent(did.src)) : IsDirIn(fs, q)
        /\ IsFileIn(did.before, did.src) => fs[did.src] = did.before[did.src]

\* ---------------------------------------------------------------------------
\* InDir

\* C17: InDir makes path when it is missing and runs fn with path as the
\* working directory; whenever an InDir is left, by a return or by a panic,
\* and also one called inside the function of another, the working directory
\* is the one that was current when it was entered, whatever fn did: changed
\* directory, panicked, or escalated to a handler or to the default panic.
C17_InDirRestores ==
    did.op = "InDir" =>
        /\ \A k \in DOMAIN did.cwds :
               /\ did.cwds[k].at = "fn" =>
                      (did.cwds[k].cwd = did.cwds[k].path /\ IsDirIn(fs, did.cwds[k].path))
               /\ did.cwds[k].at = "left" => did.cwds[k].cwd = did.cwds[k].prev
        /\ Cardinality({k \in DOMAIN did.cwds : did.cwds[k].at = "fn"})
               = Cardinality({k \in DOMAIN did.cwds : did.cwds[k].at = "left"})
        /\ did.cwds # <<>>
        /\ did.cwds[1] = Seen("fn", did.src, did.dst, did.src)
        /\ cwd = did.dst
        /\ IsDirIn(fs, did.src)

\* An InDir on a missing folder, entered from a folder other than the root,
\* whose function called InDir again with a function that panicked: both were
\* left by the panic, and the working directory is the one from before.
C17_Witness ==
    /\ did.op = "InDir"
    /\ did.fault = "panic"
    /\ ~Has(did.before, did.src)
    /\ did.dst # Root
    /\ cwd = did.dst
    /\ Len(did.cwds) = 4
    /\ did.cwds[2].at = "fn" /\ did.cwds[2].path # did.src

\* ---------------------------------------------------------------------------
\* The two execution strategies

\* The Command the strategy of the last call worked on: the one the runner
\* was given, with out and err bound to the builder by RunStr and BashStr.
Worked == IF last.op \in CapturedTextOps THEN Rebound(last.given) ELSE last.given

\* The exec.Cmd of the last call carries the configuration of its Command:
\* the directory, the three streams, and for the environment nothing when the
\* Command has no entry, else the entries of the host environment followed
\* by the Command's in the order they were added, none of them dropped.
Passed ==
    LET c == Worked
        k == Len(last.cmd.Env) - Len(c.env)
    IN  /\ last.cmd.Dir = c.dir
        /\ last.cmd.Stdin = c.in
        /\ last.cmd.Stdout = c.out
        /\ last.cmd.Stderr = c.err
        /\ last.cmd.EnvSet <=> c.env # <<>>
        /\ ~last.cmd.EnvSet => last.cmd.Env = <<>>
        /\ last.cmd.EnvSet =>
               /\ k = Cardinality({n \in EnvNames : environ[n] # ""})
               /\ \A n \in EnvNames :
                      environ[n] # "" =>
                          \E j \in 1..k : last.cmd.Env[j] = n \o "=" \o environ[n]
               /\ SubSeq(last.cmd.Env, k + 1, Len(last.cmd.Env)) = c.env

\* What a call does with the bound cell, whichever the strategy: the cell
\* takes the exit code when a process was started and gave one, and no cell
\* changes otherwise.
Sunk ==
    last'.op # "none" =>
        LET c == last'.given.exitStatus
            x == extractExitStatus(last'.runErr)
        IN  cells' = IF Started' /\ c # NoCell /\ x.err = NilErr
                     THEN [cells EXCEPT ![c] = x.n]
                     ELSE cells

\* The last call seen from its argv: a shell runner always starts
\* ("bash", "-c", raw) with raw as it stands and never returns the
\* tokenizer's error; a direct runner that starts a process starts the
\* tokens of raw, the first one as the executable.
Argv ==
    /\ last.op \in ShellOps =>
           /\ Started
           /\ last.argv = <<"bash", "-c", last.given.raw>>
           /\ last.runErr # ParseErr
    /\ (last.op \in DirectOps /\ Started) =>
           /\ Tokens[last.given.raw].err = NilErr
           /\ last.argv = Tokens[last.given.raw].args
           /\ Len(last.argv) >= 1

\* For a Command the direct strategy starts a process for, the two
\* strategies do the same but for the argv, whatever cmd.Run returns.
SameButArgv ==
    \A i \in 1..Len(cmds), res \in Results :
        LET d == run(cmds[i], res, cells)
            s == bash(cmds[i], res, cells)
        IN  d.argv # <<>> => [d EXCEPT !.argv = s.argv] = s

\* C21: the direct and the shell strategy differ only in the argv.  A direct
\* runner starts the tokens of raw, the first one as the executable; a shell
\* runner starts ("bash", "-c", raw) with raw untokenized and never returns
\* the tokenizer's error.  For the same Command both start the process with
\* the same directory, the same environment (inherited when the Command has
\* no entry, else the host environment followed by the Command's entries in
\* call order, duplicates kept), the same three streams, and treat the bound
\* cell alike.
C21_StrategiesDifferInArgv ==
    /\ [](Argv /\ (Started => Passed) /\ SameButArgv)
    /\ [][Sunk]_vars

\* A direct runner started a process for a Command with every field
\* configured, an entry of which names a variable of the host environment.
C21_Witness ==
    /\ last.op \in DirectOps
    /\ Started
    /\ last.argv = <<<<"x">>, <<"y">>>>
    /\ last.given.dir = "d1"
    /\ last.given.in = "r1"
    /\ last.given.out = "w1"
    /\ last.given.exitStatus = "n"
    /\ last.given.env = <<"HOME=/x", "K=1">>
    /\ last.cmd.Env = <<"HOME=/h", "HOME=/x", "K=1">>
    /\ last.runErr = ExitErr(3)
    /\ cells["n"] = 3

\* ---------------------------------------------------------------------------
\* The bound cell when there is no exit code

\* The last call has no exit code to give: its process could not be
\* started, or it is a direct call whose raw did not tokenize.
NoExitCode ==
    /\ last.op # "none"
    /\ \/ last.runErr = StartErr
       \/ last.op \in DirectOps /\ last.runErr = ParseErr

C22_Step == (NoExitCode' /\ last'.given.exitStatus # NoCell) => cells' = cells

\* C22: when a cell is bound and the process could not be started, under
\* either strategy, or the raw of a direct call did not tokenize, the call
\* leaves in the cell the value it held before the call: neither -1 nor 0 is
\* written to it.
C22_SinkKeptWithoutExitCode ==
    /\ []((NoExitCode /\ BoundCell # NoCell) => At("sink") = {})
    /\ [][C22_Step]_vars

\* A call on a Command with a bound cell whose process could not be started:
\* extractExitStatus gave -1 with the error, and the cell holds the exit code
\* an earlier call left in it.
C22_Witness ==
    /\ last.op \in ShellOps
    /\ last.runErr = StartErr
    /\ BoundCell = "n"
    /\ cells["n"] = 3
    /\ At("sink") = {}
    /\ \E k \in At("extractExitStatus") :
           last.events[k].n = -1 /\ last.events[k].err = StartErr

\* ---------------------------------------------------------------------------
\* A direct call on any raw command

\* The error of the last call was dealt with as its runner is meant to:
\* returned by RunErr, handed to Bsh.Panic once by the other runners.
Handled ==
    /\ last.runErr # NilErr
    /\ last.fault # "runtime"
    /\ last.op \in ErrorReturningOps =>
           (last.returned /\ last.ret.err = last.runErr /\ At("Panic") = {})
    /\ last.op \in EscalateOnlyOps \cup CapturedTextOps =>
           (Cardinality(At("Panic")) = 1 /\ \A k \in At("Panic") : last.events[k].arg = last.runErr)
    /\ last.op \in CapturedExitCodeOps =>
           (At("Panic") # {} <=> ~IsExitError(last.runErr))

\* C23: a direct runner, whatever the raw command, the empty one that
\* tokenizes to no token included, either starts a process or has an error
\* that RunErr returns and Run, RunStr and RunExitStatus hand to Bsh.Panic;
\* it raises no fault other than the one Bsh.Panic raises.
C23_DirectSpawnsOrHandles ==
    last.op \in DirectOps =>
        /\ Started \/ Handled
        /\ last.fault # "runtime"

====
